---- MODULE Spec2Model ----
(***************************************************************************)
(* Model of squigglepy/distributions.py: the distribution descriptors and  *)
(* their factory functions.                                                *)
(*                                                                         *)
(* Every factory is a pure function of its arguments, so the state machine *)
(* is: Init draws one call (factory name and arguments) from bounded sets, *)
(* and the action of that factory runs the constructor and records either  *)
(* the returned descriptor or the exception it raised.                     *)
(*                                                                         *)
(* Python values:                                                          *)
(*   None            <<>>                                                  *)
(*   a finite number <<n, d>>  the rational n/d, d > 0, in lowest terms    *)
(*   inf, -inf, nan  <<1, 0>>, <<-1, 0>>, <<0, 0>>                         *)
(* Floating-point rounding is not modelled: arithmetic is exact.           *)
(***************************************************************************)
EXTENDS Integers, Sequences, FiniteSets, TLC

VARIABLES call, result, pc

vars == <<call, result, pc>>

\* ------------------------------------------------------------------------
\* Bounds of the model
\* ------------------------------------------------------------------------

\* numeric arguments range over the integers -MaxVal..MaxVal
MaxVal == 3

\* degrees of freedom range over 1..MaxT
MaxT == 2

\* discrete items hold at most MaxLen entries
MaxLen == 2

\* ------------------------------------------------------------------------
\* Python values and float arithmetic
\* ------------------------------------------------------------------------

None == <<>>

Inf == <<1, 0>>

NegInf == <<-1, 0>>

NaN == <<0, 0>>

Abs(i) == IF i < 0 THEN -i ELSE i

RECURSIVE Gcd(_, _)
Gcd(a, b) == IF b = 0 THEN a ELSE Gcd(b, a % b)

\* the rational n/d in canonical form; a zero denominator gives inf, -inf, nan
Rat(n, d) ==
    IF d = 0 THEN (IF n > 0 THEN Inf ELSE IF n < 0 THEN NegInf ELSE NaN)
    ELSE LET g == Gcd(Abs(n), Abs(d))
             s == IF d < 0 THEN -1 ELSE 1
         IN  <<(s * n) \div g, (s * d) \div g>>

Num(i) == <<i, 1>>

IsFinite(a) == Len(a) = 2 /\ a[2] # 0

\* a + b, a - b on finite numbers
FAdd(a, b) == Rat(a[1] * b[2] + b[1] * a[2], a[2] * b[2])

FSub(a, b) == Rat(a[1] * b[2] - b[1] * a[2], a[2] * b[2])

FMul(a, b) == Rat(a[1] * b[1], a[2] * b[2])

Sign(i) == IF i < 0 THEN -1 ELSE IF i > 0 THEN 1 ELSE 0

\* a / b where b is a numpy float64: division by zero and by an infinity
\* follow IEEE 754 (x/0 = +-inf, 0/0 = nan, x/inf = 0, x/nan = nan) and
\* raise nothing
FDiv(a, b) ==
    IF a = NaN \/ b = NaN THEN NaN
    ELSE IF b[2] = 0 THEN (IF a[2] = 0 THEN NaN ELSE Num(0))
    ELSE IF a[2] = 0 THEN Rat(a[1] * (IF b[1] < 0 THEN -1 ELSE 1), 0)
    ELSE IF b[1] = 0 THEN Rat(Sign(a[1]), 0)
    ELSE Rat(a[1] * b[2], a[2] * b[1])

\* a > b, a <= b, a < b on finite numbers
FGt(a, b) == a[1] * b[2] > b[1] * a[2]

FLe(a, b) == a[1] * b[2] <= b[1] * a[2]

FLt(a, b) == a[1] * b[2] < b[1] * a[2]

\* scipy.stats.norm.ppf: the standard normal quantile, to four decimals at
\* the probabilities the model's credibilities give; +-inf at 1 and 0, nan
\* outside [0, 1]
ppf(q) ==
    CASE FGt(q, Num(1)) \/ FLt(q, Num(0)) -> NaN
      [] q = Num(1) -> Inf
      [] q = Num(0) -> NegInf
      [] q = Rat(1, 2) -> Num(0)
      [] q = Rat(3, 4) -> Rat(6745, 10000)
      [] q = Rat(1, 4) -> Rat(-6745, 10000)
      [] q = Rat(19, 20) -> Rat(16449, 10000)

\* numpy.log on the integers, to four decimals: -inf at 0 and nan below 0
log(a) ==
    CASE FLt(a, Num(0)) -> NaN
      [] a = Num(0) -> NegInf
      [] a = Num(1) -> Num(0)
      [] a = Num(2) -> Rat(6931, 10000)
      [] a = Num(3) -> Rat(10986, 10000)
      [] a = Num(4) -> Rat(13863, 10000)
      [] a = Num(5) -> Rat(16094, 10000)
      [] a = Num(6) -> Rat(17918, 10000)

\* ------------------------------------------------------------------------
\* Outcomes of a call
\* ------------------------------------------------------------------------

Return(d) == [kind |-> "return", value |-> d]

Raise(exc, msg) == [kind |-> "raise", exc |-> exc, msg |-> msg]

Pending == [kind |-> "pending"]

\* ------------------------------------------------------------------------
\* Descriptors
\* ------------------------------------------------------------------------

BaseDistribution ==
    [x |-> None, y |-> None, n |-> None, p |-> None, t |-> None,
     a |-> None, b |-> None, shape |-> None, scale |-> None,
     credibility |-> None, mean |-> None, sd |-> None,
     left |-> None, mode |-> None, right |-> None,
     lclip |-> None, rclip |-> None, lam |-> None,
     items |-> None, dists |-> None, weights |-> None,
     type |-> "BaseDistribution"]

\* cdf_value = 0.5 + 0.5 * (credibility / 100)
\* cdf_value with the factor 0.5 on the credibility dropped
cdf_value_NoHalf(credibility) ==
    FAdd(Rat(1, 2), FDiv(credibility, Num(100)))

cdf_value(credibility) ==
    FAdd(Rat(1, 2), FMul(Rat(1, 2), FDiv(credibility, Num(100))))

\* NormalDistribution with the both-defined check requiring x and y
NormalDistribution_AndConflict(x, y, mean, sd, credibility, lclip, rclip) ==
    LET self == [BaseDistribution EXCEPT !.x = x, !.y = y,
                    !.credibility = credibility, !.mean = mean, !.sd = sd,
                    !.lclip = lclip, !.rclip = rclip, !.type = "norm"]
    IN  IF self.x # None /\ self.y # None /\ FGt(self.x, self.y)
        THEN Raise("ValueError", "high value cannot be lower than low value")
        ELSE IF (self.x = None \/ self.y = None) /\ self.sd = None
        THEN Raise("ValueError", "must define either x/y or mean/sd")
        ELSE IF (self.x # None /\ self.y # None) /\ self.sd # None
        THEN Raise("ValueError", "must define either x/y or mean/sd -- cannot define both")
        ELSE LET self1 == IF self.sd # None /\ self.mean = None
                          THEN [self EXCEPT !.mean = Num(0)]
                          ELSE self
             IN  IF self1.mean = None /\ self1.sd = None
                 THEN LET m == FDiv(FAdd(self1.x, self1.y), Num(2))
                          normed_sigma == ppf(cdf_value(self1.credibility))
                      IN  Return([self1 EXCEPT !.mean = m,
                                     !.sd = FDiv(FSub(self1.y, m), normed_sigma)])
                 ELSE Return(self1)

\* NormalDistribution with the mean reset to 0 whenever sd is given
NormalDistribution_AlwaysZeroMean(x, y, mean, sd, credibility, lclip, rclip) ==
    LET self == [BaseDistribution EXCEPT !.x = x, !.y = y,
                    !.credibility = credibility, !.mean = mean, !.sd = sd,
                    !.lclip = lclip, !.rclip = rclip, !.type = "norm"]
    IN  IF self.x # None /\ self.y # None /\ FGt(self.x, self.y)
        THEN Raise("ValueError", "high value cannot be lower than low value")
        ELSE IF (self.x = None \/ self.y = None) /\ self.sd = None
        THEN Raise("ValueError", "must define either x/y or mean/sd")
        ELSE IF (self.x # None \/ self.y # None) /\ self.sd # None
        THEN Raise("ValueError", "must define either x/y or mean/sd -- cannot define both")
        ELSE LET self1 == IF self.sd # None
                          THEN [self EXCEPT !.mean = Num(0)]
                          ELSE self
             IN  IF self1.mean = None /\ self1.sd = None
                 THEN LET m == FDiv(FAdd(self1.x, self1.y), Num(2))
                          normed_sigma == ppf(cdf_value(self1.credibility))
                      IN  Return([self1 EXCEPT !.mean = m,
                                     !.sd = FDiv(FSub(self1.y, m), normed_sigma)])
                 ELSE Return(self1)

NormalDistribution(x, y, mean, sd, credibility, lclip, rclip) ==
    LET self == [BaseDistribution EXCEPT !.x = x, !.y = y,
                    !.credibility = credibility, !.mean = mean, !.sd = sd,
                    !.lclip = lclip, !.rclip = rclip, !.type = "norm"]
    IN  IF self.x # None /\ self.y # None /\ FGt(self.x, self.y)
        THEN Raise("ValueError", "high value cannot be lower than low value")
        ELSE IF (self.x = None \/ self.y = None) /\ self.sd = None
        THEN Raise("ValueError", "must define either x/y or mean/sd")
        ELSE IF (self.x # None \/ self.y # None) /\ self.sd # None
        THEN Raise("ValueError", "must define either x/y or mean/sd -- cannot define both")
        ELSE LET self1 == IF self.sd # None /\ self.mean = None
                          THEN [self EXCEPT !.mean = Num(0)]
                          ELSE self
             IN  IF self1.mean = None /\ self1.sd = None
                 THEN LET m == FDiv(FAdd(self1.x, self1.y), Num(2))
                          normed_sigma == ppf(cdf_value(self1.credibility))
                      IN  Return([self1 EXCEPT !.mean = m,
                                     !.sd = FDiv(FSub(self1.y, m), normed_sigma)])
                 ELSE Return(self1)

norm(x, y, credibility, mean, sd, lclip, rclip) ==
    NormalDistribution(x, y, mean, sd, credibility, lclip, rclip)

\* LognormalDistribution with the domain check x < 0 in place of x <= 0
LognormalDistribution_ZeroLow(x, y, mean, sd, credibility, lclip, rclip) ==
    LET self == [BaseDistribution EXCEPT !.x = x, !.y = y,
                    !.credibility = credibility, !.mean = mean, !.sd = sd,
                    !.lclip = lclip, !.rclip = rclip, !.type = "lognorm"]
    IN  IF self.x # None /\ self.y # None /\ FGt(self.x, self.y)
        THEN Raise("ValueError", "high value cannot be lower than low value")
        ELSE IF self.x # None /\ FLt(self.x, Num(0))
        THEN Raise("ValueError", "lognormal distribution must have values >= 0.")
        ELSE IF (self.x = None \/ self.y = None) /\ self.sd = None
        THEN Raise("ValueError", "must define either x/y or mean/sd")
        ELSE IF (self.x # None \/ self.y # None) /\ self.sd # None
        THEN Raise("ValueError", "must define either x/y or mean/sd -- cannot define both")
        ELSE LET self1 == IF self.sd # None /\ self.mean = None
                          THEN [self EXCEPT !.mean = Num(0)]
                          ELSE self
             IN  IF self1.mean = None /\ self1.sd = None
                 THEN LET m == FDiv(FAdd(log(self1.x), log(self1.y)), Num(2))
                          normed_sigma == ppf(cdf_value(self1.credibility))
                      IN  Return([self1 EXCEPT !.mean = m,
                                     !.sd = FDiv(FSub(log(self1.y), m), normed_sigma)])
                 ELSE Return(self1)

LognormalDistribution(x, y, mean, sd, credibility, lclip, rclip) ==
    LET self == [BaseDistribution EXCEPT !.x = x, !.y = y,
                    !.credibility = credibility, !.mean = mean, !.sd = sd,
                    !.lclip = lclip, !.rclip = rclip, !.type = "lognorm"]
    IN  IF self.x # None /\ self.y # None /\ FGt(self.x, self.y)
        THEN Raise("ValueError", "high value cannot be lower than low value")
        ELSE IF self.x # None /\ FLe(self.x, Num(0))
        THEN Raise("ValueError", "lognormal distribution must have values >= 0.")
        ELSE IF (self.x = None \/ self.y = None) /\ self.sd = None
        THEN Raise("ValueError", "must define either x/y or mean/sd")
        ELSE IF (self.x # None \/ self.y # None) /\ self.sd # None
        THEN Raise("ValueError", "must define either x/y or mean/sd -- cannot define both")
        ELSE LET self1 == IF self.sd # None /\ self.mean = None
                          THEN [self EXCEPT !.mean = Num(0)]
                          ELSE self
             IN  IF self1.mean = None /\ self1.sd = None
                 THEN LET m == FDiv(FAdd(log(self1.x), log(self1.y)), Num(2))
                          normed_sigma == ppf(cdf_value(self1.credibility))
                      IN  Return([self1 EXCEPT !.mean = m,
                                     !.sd = FDiv(FSub(log(self1.y), m), normed_sigma)])
                 ELSE Return(self1)

lognorm(x, y, credibility, mean, sd, lclip, rclip) ==
    LognormalDistribution(x, y, mean, sd, credibility, lclip, rclip)

\* to with the dispatch test x >= 0 in place of x > 0
to_NonNegative(x, y, credibility, lclip, rclip) ==
    IF x = None
    THEN Raise("TypeError", "'>' not supported between instances of 'NoneType' and 'int'")
    ELSE IF ~FLt(x, Num(0))
    THEN lognorm(x, y, credibility, None, None, lclip, rclip)
    ELSE norm(x, y, credibility, None, None, lclip, rclip)

\* to(x, y, ...): `x > 0` on None raises TypeError before any constructor runs
to(x, y, credibility, lclip, rclip) ==
    IF x = None
    THEN Raise("TypeError", "'>' not supported between instances of 'NoneType' and 'int'")
    ELSE IF FGt(x, Num(0))
    THEN lognorm(x, y, credibility, None, None, lclip, rclip)
    ELSE norm(x, y, credibility, None, None, lclip, rclip)

\* Arguments whose Python type the code inspects are [ty, v]: the type name
\* and the value
isinstance(o, ty) == o.ty = ty

BinomialDistribution(n, p) ==
    Return([BaseDistribution EXCEPT !.n = n, !.p = p, !.type = "binomial"])

binomial(n, p) == BinomialDistribution(n, p)

BernoulliDistribution(p) ==
    IF ~isinstance(p, "float") \/ isinstance(p, "int")
    THEN Raise("ValueError", "bernoulli p must be a float or int")
    ELSE IF FLt(p.v, Num(0)) \/ FGt(p.v, Num(1))
    THEN Raise("ValueError", "bernoulli p must be 0-1")
    ELSE Return([BaseDistribution EXCEPT !.p = p, !.type = "bernoulli"])

bernoulli(p) == BernoulliDistribution(p)

\* DiscreteDistribution with `or` in place of `and` in the type check
DiscreteDistribution_OrCheck(items) ==
    IF ~isinstance(items, "dict") \/ ~isinstance(items, "list")
    THEN Raise("ValueError", "inputs to discrete must be a dict or list")
    ELSE Return([BaseDistribution EXCEPT !.items = items, !.type = "discrete"])

DiscreteDistribution(items) ==
    IF ~isinstance(items, "dict") /\ ~isinstance(items, "list")
    THEN Raise("ValueError", "inputs to discrete must be a dict or list")
    ELSE Return([BaseDistribution EXCEPT !.items = items, !.type = "discrete"])

discrete(items) == DiscreteDistribution(items)

\* TDistribution with the ordering check x >= y in place of x > y
TDistribution_StrictOrder(x, y, t, credibility, lclip, rclip) ==
    LET self == [BaseDistribution EXCEPT !.x = x, !.y = y, !.t = t,
                    !.credibility = credibility,
                    !.lclip = lclip, !.rclip = rclip, !.type = "tdist"]
    IN  IF (self.x = None \/ self.y = None) /\ ~(self.x = None /\ self.y = None)
        THEN Raise("ValueError", "must define either both x and y or neither.")
        ELSE IF self.x # None /\ self.y # None /\ ~FLt(self.x, self.y)
        THEN Raise("ValueError", "high value cannot be lower than low value")
        ELSE IF self.x = None
        THEN Return([self EXCEPT !.credibility = None])
        ELSE Return(self)

TDistribution(x, y, t, credibility, lclip, rclip) ==
    LET self == [BaseDistribution EXCEPT !.x = x, !.y = y, !.t = t,
                    !.credibility = credibility,
                    !.lclip = lclip, !.rclip = rclip, !.type = "tdist"]
    IN  IF (self.x = None \/ self.y = None) /\ ~(self.x = None /\ self.y = None)
        THEN Raise("ValueError", "must define either both x and y or neither.")
        ELSE IF self.x # None /\ self.y # None /\ FGt(self.x, self.y)
        THEN Raise("ValueError", "high value cannot be lower than low value")
        ELSE IF self.x = None
        THEN Return([self EXCEPT !.credibility = None])
        ELSE Return(self)

tdist(x, y, t, credibility, lclip, rclip) ==
    TDistribution(x, y, t, credibility, lclip, rclip)

\* LogTDistribution without the reset of credibility when x is None
LogTDistribution_KeepCredibility(x, y, t, credibility, lclip, rclip) ==
    LET self == [BaseDistribution EXCEPT !.x = x, !.y = y, !.t = t,
                    !.credibility = credibility,
                    !.lclip = lclip, !.rclip = rclip, !.type = "log_tdist"]
    IN  IF (self.x = None \/ self.y = None) /\ ~(self.x = None /\ self.y = None)
        THEN Raise("ValueError", "must define either both x and y or neither.")
        ELSE IF self.x # None /\ self.y # None /\ FGt(self.x, self.y)
        THEN Raise("ValueError", "high value cannot be lower than low value")
        ELSE IF self.x = None
        THEN Return(self)
        ELSE Return(self)

LogTDistribution(x, y, t, credibility, lclip, rclip) ==
    LET self == [BaseDistribution EXCEPT !.x = x, !.y = y, !.t = t,
                    !.credibility = credibility,
                    !.lclip = lclip, !.rclip = rclip, !.type = "log_tdist"]
    IN  IF (self.x = None \/ self.y = None) /\ ~(self.x = None /\ self.y = None)
        THEN Raise("ValueError", "must define either both x and y or neither.")
        ELSE IF self.x # None /\ self.y # None /\ FGt(self.x, self.y)
        THEN Raise("ValueError", "high value cannot be lower than low value")
        ELSE IF self.x = None
        THEN Return([self EXCEPT !.credibility = None])
        ELSE Return(self)

log_tdist(x, y, t, credibility, lclip, rclip) ==
    LogTDistribution(x, y, t, credibility, lclip, rclip)

\* the sum of a sequence of numbers
RECURSIVE FSum(_)
FSum(ws) == IF ws = <<>> THEN Num(0) ELSE FAdd(ws[1], FSum(Tail(ws)))

\* utils._process_weights_values, by its contract: values is a mapping
\* value -> weight, a list of [weight, value] pairs or a bare list of values
\* (uniform weights); explicit weights must match the values in length and
\* be non-negative; the result is the pair (weights scaled to sum 1, values)
process_weights_values(weights, values) ==
    LET n  == Len(values.v)
        ws == IF weights # None THEN weights
              ELSE IF values.form = "mapping" THEN [i \in 1..n |-> values.v[i][2]]
              ELSE IF values.form = "pairs" THEN [i \in 1..n |-> values.v[i][1]]
              ELSE [i \in 1..n |-> Rat(1, n)]
        vs == IF weights # None THEN values.v
              ELSE IF values.form = "mapping" THEN [i \in 1..n |-> values.v[i][1]]
              ELSE IF values.form = "pairs" THEN [i \in 1..n |-> values.v[i][2]]
              ELSE values.v
    IN  IF Len(ws) # Len(vs)
        THEN Raise("ValueError", "weights and values not same length")
        ELSE IF \E i \in 1..Len(ws) : FLt(ws[i], Num(0))
        THEN Raise("ValueError", "cannot handle negative weights")
        ELSE Return(<<[i \in 1..Len(ws) |-> FDiv(ws[i], FSum(ws))], vs>>)

\* MixtureDistribution storing the weights argument as passed
MixtureDistribution_RawWeights(dists, weights, lclip, rclip) ==
    LET r == process_weights_values(weights, dists)
    IN  IF r.kind = "raise" THEN r
        ELSE Return([BaseDistribution EXCEPT !.dists = r.value[2],
                        !.weights = weights,
                        !.lclip = lclip, !.rclip = rclip, !.type = "mixture"])

MixtureDistribution(dists, weights, lclip, rclip) ==
    LET r == process_weights_values(weights, dists)
    IN  IF r.kind = "raise" THEN r
        ELSE Return([BaseDistribution EXCEPT !.dists = r.value[2],
                        !.weights = r.value[1],
                        !.lclip = lclip, !.rclip = rclip, !.type = "mixture"])

mixture(dists, weights, lclip, rclip) ==
    MixtureDistribution(dists, weights, lclip, rclip)

BetaDistribution(a, b) ==
    Return([BaseDistribution EXCEPT !.a = a, !.b = b, !.type = "beta"])

beta(a, b) == BetaDistribution(a, b)

\* ------------------------------------------------------------------------
\* Debug strings
\* ------------------------------------------------------------------------

\* round(v, 2) on a float: to the nearest hundredth, ties to even; inf and
\* nan are returned as they are
round2(v) ==
    IF ~IsFinite(v) THEN v
    ELSE LET c == v[1] * 100
             q == c \div v[2]
             r == c % v[2]
         IN  IF 2 * r < v[2] THEN Rat(q, 100)
             ELSE IF 2 * r > v[2] THEN Rat(q + 1, 100)
             ELSE IF q % 2 = 0 THEN Rat(q, 100)
             ELSE Rat(q + 1, 100)

\* str of an int
str_int(v) == ToString(v[1])

\* str of a float with at most two decimals: the shortest decimal that has
\* at least one digit after the point (the sign of a zero is not modelled)
str_float(v) ==
    IF v = Inf THEN "inf"
    ELSE IF v = NegInf THEN "-inf"
    ELSE IF v = NaN THEN "nan"
    ELSE LET c  == (v[1] * 100) \div v[2]
             m  == Abs(c)
             fp == m % 100
         IN  (IF c < 0 THEN "-" ELSE "")
             \o ToString(m \div 100) \o "."
             \o (IF fp % 10 = 0 THEN ToString(fp \div 10)
                 ELSE IF fp < 10 THEN "0" \o ToString(fp)
                 ELSE ToString(fp))

\* '{}'.format(o) of an argument [ty, v]; the model's one string is 'a'
str_value(o) ==
    CASE o.ty = "int" -> str_int(o.v)
      [] o.ty = "float" -> str_float(o.v)
      [] o.ty = "str" -> "a"
      [] o.ty = "NoneType" -> "None"

RECURSIVE Join(_)
Join(parts) == IF parts = <<>> THEN "" ELSE parts[1] \o Join(Tail(parts))

\* the outcome of str(self): the string, kept with the pieces it was built
\* from and the descriptor it renders
Rendered(self, parts) ==
    [kind |-> "return", value |-> Join(parts), parts |-> parts, self |-> self]

\* the optional ', lclip=..' and ', rclip=..' pieces and the closing ')'
clip_parts(self) ==
    (IF self.lclip # None THEN <<", lclip=", str_int(self.lclip)>> ELSE <<>>)
    \o (IF self.rclip # None THEN <<", rclip=", str_int(self.rclip)>> ELSE <<>>)
    \o <<")">>

BaseDistribution_str(self) ==
    Rendered(self, <<"<Distribution> ", self.type>>)

\* NormalDistribution.__str__ and LognormalDistribution.__str__: mean and sd
\* are floats when inferred from the interval (x is set) and the ints that
\* were passed otherwise; round(None, 2) raises TypeError
NormalDistribution_str(self) ==
    IF self.mean = None \/ self.sd = None
    THEN Raise("TypeError", "type NoneType doesn't define __round__ method")
    ELSE Rendered(self,
            <<"<Distribution> ", self.type, "(mean=",
              IF self.x # None THEN str_float(round2(self.mean))
                               ELSE str_int(self.mean),
              ", sd=",
              IF self.x # None THEN str_float(round2(self.sd))
                               ELSE str_int(self.sd)>>
            \o clip_parts(self))

LognormalDistribution_str(self) == NormalDistribution_str(self)

BinomialDistribution_str(self) ==
    Rendered(self, <<"<Distribution> ", self.type, "(n=", str_int(self.n),
                     ", p=", str_value(self.p), ")">>)

BetaDistribution_str(self) ==
    Rendered(self, <<"<Distribution> ", self.type, "(a=", str_int(self.a),
                     ", b=", str_int(self.b), ")">>)

BernoulliDistribution_str(self) ==
    Rendered(self, <<"<Distribution> ", self.type, "(p=", str_value(self.p), ")">>)

TDistribution_str(self) ==
    Rendered(self,
        (IF self.x # None
         THEN <<"<Distribution> ", self.type, "(x=", str_int(self.x),
                ", y=", str_int(self.y), ", t=", str_int(self.t)>>
         ELSE <<"<Distribution> ", self.type, "(t=", str_int(self.t)>>)
        \o (IF self.credibility # Num(90) /\ self.credibility # None
            THEN <<", credibility=", str_int(self.credibility)>> ELSE <<>>)
        \o clip_parts(self))

LogTDistribution_str(self) == TDistribution_str(self)

\* str(self): the __str__ of the descriptor's class
str(self) ==
    CASE self.type = "norm" -> NormalDistribution_str(self)
      [] self.type = "lognorm" -> LognormalDistribution_str(self)
      [] self.type = "binomial" -> BinomialDistribution_str(self)
      [] self.type = "beta" -> BetaDistribution_str(self)
      [] self.type = "bernoulli" -> BernoulliDistribution_str(self)
      [] self.type = "tdist" -> TDistribution_str(self)
      [] self.type = "log_tdist" -> LogTDistribution_str(self)
      [] self.type \in {"discrete", "mixture"} -> BaseDistribution_str(self)

\* ------------------------------------------------------------------------
\* Inputs
\* ------------------------------------------------------------------------

Nums == {Num(i) : i \in -MaxVal..MaxVal}

NumOrNone == Nums \cup {None}

Credibilities == {Num(-50), Num(0), Num(50), Num(90), Num(100), Num(150)}

Clips == {None, Num(0)}

\* norm(...) and lognorm(...) calls
IntervalCalls ==
    {[fn |-> f, x |-> x, y |-> y, credibility |-> c, mean |-> m, sd |-> s,
      lclip |-> l, rclip |-> r] :
        f \in {"norm", "lognorm"},
        x \in NumOrNone, y \in NumOrNone, c \in Credibilities,
        m \in NumOrNone, s \in NumOrNone, l \in Clips, r \in Clips}

\* to(...) calls
ToCalls ==
    {[fn |-> "to", x |-> x, y |-> y, credibility |-> c, lclip |-> l, rclip |-> r] :
        x \in NumOrNone, y \in NumOrNone, c \in Credibilities,
        l \in Clips, r \in Clips}

\* tdist(...) and log_tdist(...) calls
TCalls ==
    {[fn |-> f, x |-> x, y |-> y, t |-> Num(t), credibility |-> c,
      lclip |-> l, rclip |-> r] :
        f \in {"tdist", "log_tdist"},
        x \in NumOrNone, y \in NumOrNone, t \in 1..MaxT, c \in Credibilities,
        l \in Clips, r \in Clips}

\* probabilities: ints, floats (halves), a string and None
PValues ==
    {[ty |-> "int", v |-> Num(i)] : i \in -MaxVal..MaxVal}
    \cup {[ty |-> "float", v |-> Rat(i, 2)] : i \in -MaxVal..(MaxVal + 1)}
    \cup {[ty |-> "str", v |-> None], [ty |-> "NoneType", v |-> None]}

PCalls ==
    {[fn |-> "bernoulli", p |-> p] : p \in PValues}
    \cup {[fn |-> "binomial", n |-> Num(n), p |-> p] : n \in 0..MaxVal, p \in PValues}

SeqsUpTo(S, n) == UNION {[1..k -> S] : k \in 0..n}

Outcomes == {"a", "b"}

WeightVals == {Rat(1, 10), Rat(9, 10), Num(2)}

\* {outcome: weight, ...}: keys in insertion order, no key twice
DictItems ==
    {[ty |-> "dict", v |-> s] :
        s \in {q \in SeqsUpTo(Outcomes \X WeightVals, MaxLen) :
                 \A i, j \in 1..Len(q) : q[i][1] = q[j][1] => i = j}}

\* [[weight, outcome], ...]
PairListItems ==
    {[ty |-> "list", v |-> s] :
        s \in {q \in SeqsUpTo(WeightVals \X Outcomes, MaxLen) : Len(q) > 0}}

\* [outcome, ...]
BareListItems == {[ty |-> "list", v |-> s] : s \in SeqsUpTo(Outcomes, MaxLen)}

\* 42, 0.5, 'ab', None, ('a', 'b'), {'a', 'b'}
OtherItems ==
    {[ty |-> "int", v |-> <<"42">>], [ty |-> "float", v |-> <<"0.5">>],
     [ty |-> "str", v |-> <<"ab">>], [ty |-> "NoneType", v |-> <<>>],
     [ty |-> "tuple", v |-> <<"a", "b">>], [ty |-> "set", v |-> <<"a", "b">>]}

\* component descriptors of a mixture: norm(0, 1) and norm(mean=1, sd=2)
Components ==
    {NormalDistribution(Num(0), Num(1), None, None, Num(90), None, None).value,
     NormalDistribution(None, None, Num(1), Num(2), Num(90), None, None).value}

MixWeights == {Rat(1, 10), Rat(1, 2), Rat(9, 10), Rat(-1, 10)}

NonEmptySeqsUpTo(S, n) == {q \in SeqsUpTo(S, n) : Len(q) > 0}

\* mixture([d, ...]) and mixture([d, ...], weights=[w, ...])
BareMixtureCalls ==
    {[fn |-> "mixture", dists |-> [ty |-> "list", form |-> "bare", v |-> d],
      weights |-> w, lclip |-> l, rclip |-> r] :
        d \in NonEmptySeqsUpTo(Components, MaxLen),
        w \in {None} \cup NonEmptySeqsUpTo(MixWeights, MaxLen),
        l \in Clips, r \in Clips}

\* mixture([[w, d], ...])
PairMixtureCalls ==
    {[fn |-> "mixture", dists |-> [ty |-> "list", form |-> "pairs", v |-> d],
      weights |-> None, lclip |-> l, rclip |-> r] :
        d \in NonEmptySeqsUpTo(MixWeights \X Components, MaxLen),
        l \in Clips, r \in Clips}

\* mixture({d: w, ...})
MappingMixtureCalls ==
    {[fn |-> "mixture", dists |-> [ty |-> "dict", form |-> "mapping", v |-> d],
      weights |-> None, lclip |-> l, rclip |-> r] :
        d \in {q \in NonEmptySeqsUpTo(Components \X MixWeights, MaxLen) :
                 \A i, j \in 1..Len(q) : q[i][1] = q[j][1] => i = j},
        l \in Clips, r \in Clips}

\* beta(a, b) calls
BetaCalls ==
    {[fn |-> "beta", a |-> Num(a), b |-> Num(b)] : a \in 1..MaxVal, b \in 1..MaxVal}

\* ------------------------------------------------------------------------
\* The state machine
\* ------------------------------------------------------------------------

Init ==
    /\ \/ call \in IntervalCalls
       \/ call \in ToCalls
       \/ call \in TCalls
       \/ call \in PCalls
       \/ \E items \in DictItems : call = [fn |-> "discrete", items |-> items]
       \/ \E items \in PairListItems : call = [fn |-> "discrete", items |-> items]
       \/ \E items \in BareListItems : call = [fn |-> "discrete", items |-> items]
       \/ \E items \in OtherItems : call = [fn |-> "discrete", items |-> items]
       \/ call \in BetaCalls
       \/ call \in BareMixtureCalls
       \/ call \in PairMixtureCalls
       \/ call \in MappingMixtureCalls
    /\ result = Pending
    /\ pc = "call"

Norm ==
    /\ pc = "call"
    /\ call.fn = "norm"
    /\ result' = norm(call.x, call.y, call.credibility, call.mean, call.sd,
                      call.lclip, call.rclip)
    /\ pc' = "done"
    /\ UNCHANGED call

Lognorm ==
    /\ pc = "call"
    /\ call.fn = "lognorm"
    /\ result' = lognorm(call.x, call.y, call.credibility, call.mean, call.sd,
                         call.lclip, call.rclip)
    /\ pc' = "done"
    /\ UNCHANGED call

To ==
    /\ pc = "call"
    /\ call.fn = "to"
    /\ result' = to(call.x, call.y, call.credibility, call.lclip, call.rclip)
    /\ pc' = "done"
    /\ UNCHANGED call

Binomial ==
    /\ pc = "call"
    /\ call.fn = "binomial"
    /\ result' = binomial(call.n, call.p)
    /\ pc' = "done"
    /\ UNCHANGED call

Bernoulli ==
    /\ pc = "call"
    /\ call.fn = "bernoulli"
    /\ result' = bernoulli(call.p)
    /\ pc' = "done"
    /\ UNCHANGED call

Discrete ==
    /\ pc = "call"
    /\ call.fn = "discrete"
    /\ result' = discrete(call.items)
    /\ pc' = "done"
    /\ UNCHANGED call

Tdist ==
    /\ pc = "call"
    /\ call.fn = "tdist"
    /\ result' = tdist(call.x, call.y, call.t, call.credibility,
                       call.lclip, call.rclip)
    /\ pc' = "done"
    /\ UNCHANGED call

LogTdist ==
    /\ pc = "call"
    /\ call.fn = "log_tdist"
    /\ result' = log_tdist(call.x, call.y, call.t, call.credibility,
                           call.lclip, call.rclip)
    /\ pc' = "done"
    /\ UNCHANGED call

Mixture ==
    /\ pc = "call"
    /\ call.fn = "mixture"
    /\ result' = mixture(call.dists, call.weights, call.lclip, call.rclip)
    /\ pc' = "done"
    /\ UNCHANGED call

Beta ==
    /\ pc = "call"
    /\ call.fn = "beta"
    /\ result' = beta(call.a, call.b)
    /\ pc' = "done"
    /\ UNCHANGED call

\* str(d) on the descriptor the call returned
Str ==
    /\ pc = "done"
    /\ result.kind = "return"
    /\ result' = str(result.value)
    /\ pc' = "str"
    /\ UNCHANGED call

Next ==
    \/ Norm
    \/ Lognorm
    \/ To
    \/ Binomial
    \/ Bernoulli
    \/ Discrete
    \/ Tdist
    \/ LogTdist
    \/ Mixture
    \/ Beta
    \/ Str

Spec == Init /\ [][Next]_vars

\* ------------------------------------------------------------------------
\* Properties
\* ------------------------------------------------------------------------

Done(fns) == pc = "done" /\ call.fn \in fns

Returned == result.kind = "return"

Raised == result.kind = "raise"

RangeOrderMsg == "high value cannot be lower than low value"

DomainMsg == "lognormal distribution must have values >= 0."

\* C1: norm and lognorm fail (and return no descriptor) whenever sd is
\* supplied together with x or y, and whenever sd is absent and at least one
\* of x, y is absent, whatever mean is.
C1_ParameterConflict ==
    (/\ Done({"norm", "lognorm"})
     /\ \/ call.sd # None /\ (call.x # None \/ call.y # None)
        \/ call.sd = None /\ (call.x = None \/ call.y = None))
    => Raised

\* norm(x, y, sd) with x <= y was called and failed on the conflict check
C1_Witness ==
    /\ Done({"norm"})
    /\ call.x # None /\ call.y # None /\ call.sd # None
    /\ FLe(call.x, call.y)
    /\ Raised
    /\ result.msg = "must define either x/y or mean/sd -- cannot define both"

\* C2: norm, lognorm, tdist and log_tdist fail whenever both x and y are
\* supplied and x > y; x = y never fails the ordering check; every returned
\* descriptor of these variants that carries an interval has x <= y.
C2_RangeOrder ==
    /\ (/\ Done({"norm", "lognorm", "tdist", "log_tdist"})
        /\ call.x # None /\ call.y # None)
       => /\ FGt(call.x, call.y) => Raised
          /\ call.x = call.y => ~(Raised /\ result.msg = RangeOrderMsg)
    /\ (/\ pc = "done" /\ Returned
        /\ result.value.type \in {"norm", "lognorm", "tdist", "log_tdist"}
        /\ result.value.x # None /\ result.value.y # None)
       => FLe(result.value.x, result.value.y)

\* tdist(x, y) with x = y returned a descriptor carrying the interval
C2_Witness ==
    /\ Done({"tdist"})
    /\ call.x # None /\ call.x = call.y
    /\ Returned
    /\ result.value.x = call.x /\ result.value.y = call.y

\* C3: lognorm fails whenever x is supplied and x <= 0, whatever the other
\* arguments are; every lognormal descriptor that carries x has 0 < x <= y.
C3_LognormDomain ==
    /\ (Done({"lognorm"}) /\ call.x # None /\ FLe(call.x, Num(0))) => Raised
    /\ (/\ pc = "done" /\ Returned
        /\ result.value.type = "lognorm"
        /\ result.value.x # None)
       => /\ result.value.y # None
          /\ FLt(Num(0), result.value.x)
          /\ FLe(result.value.x, result.value.y)

\* lognorm(x=0, y) with y >= 0 failed on the domain check
C3_Witness ==
    /\ Done({"lognorm"})
    /\ call.x = Num(0) /\ call.y # None /\ FLe(call.x, call.y)
    /\ Raised
    /\ result.msg = DomainMsg

\* the interval call of C4: both endpoints, no mean, no sd, 0 < c < 100
C4_Case ==
    /\ Done({"norm", "lognorm"})
    /\ call.x # None /\ call.y # None /\ FLe(call.x, call.y)
    /\ call.fn = "lognorm" => FLt(Num(0), call.x)
    /\ call.mean = None /\ call.sd = None
    /\ FLt(Num(0), call.credibility) /\ FLt(call.credibility, Num(100))

\* C4: norm (lognorm in log-space) built from an interval x <= y with
\* credibility c in (0, 100) and no mean/sd stores mean = (lo + hi) / 2 and
\* an sd with sd * z = hi - mean, z the quantile at 0.5 + 0.5 * c / 100;
\* so mean - lo = hi - mean, sd >= 0, and sd = 0 exactly when x = y.
C4_IntervalInference ==
    C4_Case =>
        LET lo == IF call.fn = "norm" THEN call.x ELSE log(call.x)
            hi == IF call.fn = "norm" THEN call.y ELSE log(call.y)
            z  == ppf(Rat(100 * call.credibility[2] + call.credibility[1],
                          200 * call.credibility[2]))
            d  == result.value
        IN  /\ Returned
            /\ IsFinite(d.mean) /\ IsFinite(d.sd)
            /\ FAdd(d.mean, d.mean) = FAdd(lo, hi)
            /\ FMul(d.sd, z) = FSub(hi, d.mean)
            /\ FSub(d.mean, lo) = FSub(hi, d.mean)
            /\ FLe(Num(0), d.sd)
            /\ (d.sd = Num(0)) <=> (call.x = call.y)

\* lognorm(x, y) with 0 < x < y at credibility 90 returned a positive sd
C4_Witness ==
    /\ C4_Case
    /\ call.fn = "lognorm" /\ FLt(call.x, call.y)
    /\ call.credibility = Num(90)
    /\ Returned
    /\ FLt(Num(0), result.value.sd)

\* the interval call of C5: both endpoints, no mean, no sd, credibility 100
C5_Case ==
    /\ Done({"norm", "lognorm"})
    /\ call.x # None /\ call.y # None /\ FLe(call.x, call.y)
    /\ call.fn = "lognorm" => FLt(Num(0), call.x)
    /\ call.mean = None /\ call.sd = None
    /\ call.credibility = Num(100)

\* C5: when norm or lognorm is built from an interval at credibility 100
\* (infinite quantile) the boundary is signalled: the call raises, or at
\* least the stored sd is not an ordinary finite number.
C5_BoundarySignalled ==
    C5_Case => (Raised \/ ~IsFinite(result.value.sd))

\* C6: to(x, y, credibility, lclip, rclip) has exactly the outcome of the
\* lognormal constructor on the same arguments when x > 0 and of the normal
\* constructor when x <= 0, and never fails with the lognormal domain error.
C6_ToDispatch ==
    (Done({"to"}) /\ call.x # None) =>
        /\ result = IF FGt(call.x, Num(0))
                    THEN LognormalDistribution(call.x, call.y, None, None,
                             call.credibility, call.lclip, call.rclip)
                    ELSE NormalDistribution(call.x, call.y, None, None,
                             call.credibility, call.lclip, call.rclip)
        /\ ~(Raised /\ result.msg = DomainMsg)

\* to(0, y) with y >= 0 returned a normal descriptor
C6_Witness ==
    /\ Done({"to"})
    /\ call.x = Num(0) /\ call.y # None /\ FLe(call.x, call.y)
    /\ Returned
    /\ result.value.type = "norm"

\* C7: bernoulli(p) succeeds exactly when p is an int or a float with
\* 0 <= p <= 1, and then stores p unchanged.
C7_BernoulliAccepts ==
    Done({"bernoulli"}) =>
        /\ Returned <=> (/\ call.p.ty \in {"int", "float"}
                         /\ FLe(Num(0), call.p.v) /\ FLe(call.p.v, Num(1)))
        /\ Returned => result.value.p = call.p

\* C8: binomial(n, p) fails when p is a number outside [0, 1], so every
\* binomial descriptor has 0 <= p <= 1.
C8_BinomialProbability ==
    (/\ Done({"binomial"})
     /\ call.p.ty \in {"int", "float"}
     /\ (FLt(call.p.v, Num(0)) \/ FGt(call.p.v, Num(1))))
    => Raised

\* C9: tdist and log_tdist fail when exactly one of x, y is supplied; with
\* neither the stored credibility is None whatever was passed; with both
\* (x <= y) the passed credibility, x, y and t are stored unchanged.
C9_TInterval ==
    Done({"tdist", "log_tdist"}) =>
        /\ ((call.x = None) # (call.y = None)) => Raised
        /\ (call.x = None /\ call.y = None) =>
               (Returned /\ result.value.credibility = None)
        /\ (call.x # None /\ call.y # None /\ FLe(call.x, call.y)) =>
               (/\ Returned
                /\ result.value.credibility = call.credibility
                /\ result.value.x = call.x
                /\ result.value.y = call.y
                /\ result.value.t = call.t)

\* log_tdist(credibility=50) without an interval returned credibility None
C9_Witness ==
    /\ Done({"log_tdist"})
    /\ call.x = None /\ call.y = None
    /\ call.credibility = Num(50)
    /\ Returned
    /\ result.value.credibility = None

\* C10: discrete(items) succeeds for a dict, a list of [weight, outcome]
\* pairs and a bare list, storing items exactly as given; it fails if and
\* only if items is neither a dict nor a list.
C10_DiscreteItems ==
    Done({"discrete"}) =>
        /\ Raised <=> call.items.ty \notin {"dict", "list"}
        /\ call.items.ty \in {"dict", "list"} =>
               (Returned /\ result.value.items = call.items)

\* discrete([[2, 'b'], [0.1, 'a']]) returned the pairs in the given order
\* with the given weights
C10_Witness ==
    /\ Done({"discrete"})
    /\ call.items.ty = "list" /\ Len(call.items.v) = 2
    /\ call.items.v[1] = <<Num(2), "b">>
    /\ call.items.v[2] = <<Rat(1, 10), "a">>
    /\ Returned
    /\ result.value.items.v = << <<Num(2), "b">>, <<Rat(1, 10), "a">> >>

\* C13: every descriptor that norm or lognorm returns has both mean and sd
\* defined (not None), for every accepted combination of x, y, mean, sd.
C13_FullyParameterised ==
    (Done({"norm", "lognorm"}) /\ Returned) =>
        (result.value.mean # None /\ result.value.sd # None)

\* the direct call of C14: sd supplied, no x, no y
C14_Case ==
    /\ Done({"norm", "lognorm"})
    /\ call.sd # None /\ call.x = None /\ call.y = None

\* C14: norm or lognorm called with sd and without x and y stores mean 0
\* when mean is omitted and the given mean otherwise, stores sd unchanged,
\* infers no interval, and the credibility argument does not enter mean or
\* sd.
C14_DirectParameters ==
    C14_Case =>
        /\ Returned
        /\ result.value.mean = (IF call.mean = None THEN Num(0) ELSE call.mean)
        /\ result.value.sd = call.sd
        /\ result.value.x = None /\ result.value.y = None

\* norm(mean=2, sd=1, credibility=50) returned mean 2 and sd 1
C14_Witness ==
    /\ C14_Case
    /\ call.fn = "norm"
    /\ call.mean = Num(2) /\ call.sd = Num(1)
    /\ call.credibility = Num(50)
    /\ Returned
    /\ result.value.mean = Num(2) /\ result.value.sd = Num(1)

\* C11: every mixture descriptor stores weights and dists of equal length
\* with the weights summing to 1: uniform 1/n each when no weights are given
\* for a bare list, the given weights when they already sum to 1; explicit
\* weights of another length than dists make mixture fail.
C11_MixtureWeights ==
    Done({"mixture"}) =>
        LET n == Len(call.dists.v)
        IN  /\ Returned =>
                   /\ Len(result.value.weights) = Len(result.value.dists)
                   /\ FSum(result.value.weights) = Num(1)
            /\ (call.weights = None /\ call.dists.form = "bare") =>
                   /\ Returned
                   /\ result.value.dists = call.dists.v
                   /\ \A i \in 1..n : FMul(result.value.weights[i], Num(n)) = Num(1)
            /\ (/\ call.weights # None
                /\ Len(call.weights) = n
                /\ \A i \in 1..n : FLe(Num(0), call.weights[i])
                /\ FSum(call.weights) = Num(1)) =>
                   /\ Returned
                   /\ result.value.weights = call.weights
                   /\ result.value.dists = call.dists.v
            /\ (call.weights # None /\ Len(call.weights) # n) => Raised

\* mixture([d1, d2]) without weights returned the weights [1/2, 1/2]
C11_Witness ==
    /\ Done({"mixture"})
    /\ call.weights = None /\ call.dists.form = "bare"
    /\ Len(call.dists.v) = 2
    /\ Returned
    /\ result.value.weights = <<Rat(1, 2), Rat(1, 2)>>

\* the string of C12's positional form: name(first, second)
C12_Positional(name, first, second) ==
    "<Distribution> " \o name \o "(" \o first \o ", " \o second \o ")"

HasPart(parts, piece) == \E i \in 1..Len(parts) : parts[i] = piece

\* C12: the debug string is the variant name plus its canonical parameters
\* in the form of the factory's docstring example: binomial(n, p) renders as
\* '<Distribution> binomial(n, p)' and beta(a, b) as '<Distribution>
\* beta(a, b)'; a normal built from an interval renders its derived mean and
\* sd; lclip and rclip appear in the string only when they are set.
C12_DebugString ==
    (pc = "str" /\ result.kind = "return") =>
        /\ call.fn = "binomial" =>
               result.value = C12_Positional("binomial", str_int(call.n),
                                             str_value(call.p))
        /\ call.fn = "beta" =>
               result.value = C12_Positional("beta", str_int(call.a),
                                             str_int(call.b))
        /\ (call.fn = "norm" /\ call.x # None) =>
               /\ SubSeq(result.parts, 1, 6) =
                      <<"<Distribution> ", "norm",
                        "(mean=", str_float(round2(result.self.mean)),
                        ", sd=", str_float(round2(result.self.sd))>>
               /\ ~HasPart(result.parts, "(x=")
        /\ HasPart(result.parts, ", lclip=") => result.self.lclip # None
        /\ HasPart(result.parts, ", rclip=") => result.self.rclip # None

====
